---------------------------- MODULE Spec2Model ----------------------------
(***************************************************************************)
(* Model of heroku-app/index.js: the "Governor" app.  One HTTP handler     *)
(* (POST /sfdc-audit-log) validates a token and pushes a batch of log      *)
(* records onto the in-memory messageQueue; one worker (processQueue)      *)
(* shifts one record per timer tick, awaits postToSlack and unshifts the   *)
(* record again when postToSlack throws.                                   *)
(*                                                                         *)
(* Node runs every callback to completion, so each handler is one atomic   *)
(* action.  The only point where processQueue yields to other callbacks is *)
(* the await on fetch inside postToSlack (line 113); when postToSlack      *)
(* returns before the fetch (line 98) the await resumes in a microtask and *)
(* the whole tick is still one atomic action.                              *)
(*                                                                         *)
(* Log records are JavaScript objects; they are modelled by their object   *)
(* identity, a positive integer.  JavaScript values of token, logs and the *)
(* two configuration strings are pairs <<type, payload>>.  Line 48 checks   *)
(* only that logs is a non-empty array, so an element can be any JSON      *)
(* value; what the worker does with an element depends on whether its      *)
(* fields convert to strings at line 81 and at lines 103-110, and the      *)
(* model keeps that about each queued record (fields).                     *)
(***************************************************************************)
EXTENDS Integers, Sequences, FiniteSets

\* Bounds of the model.
MaxRecords == 3      \* records accepted over a run
MaxBatch == 2        \* length of one request's logs array

\* No record (the worker holds no record; nothing attempted yet).
None == 0

----------------------------------------------------------------------------
\* JavaScript values.

Undefined == <<"undefined", "">>
Str(s) == <<"string", s>>
Obj == <<"object", "">>
Arr(items) == <<"array", items>>

\* !v is FALSE: undefined and the empty string are falsy, objects and arrays
\* (the empty array included) are truthy.
Truthy(v) ==
    CASE v[1] = "undefined" -> FALSE
      [] v[1] = "string" -> v[2] # ""
      [] OTHER -> TRUE

\* a !== b for the values a token and the secret can take.
StrictNotEqual(a, b) == a[1] # b[1] \/ a[2] # b[2]

IsArray(v) == v[1] = "array"

\* Mutant of Reverse: the batch is pushed in the order received.
ReverseOmitted(s) == s

\* Array.prototype.reverse
RECURSIVE Reverse(_)
Reverse(s) == IF s = <<>> THEN <<>> ELSE Append(Reverse(Tail(s)), Head(s))

\* Mutant of Push: the items are inserted at the head.
PushAtHead(queue, items) == items \o queue

\* Mutant of Push: only the first item is pushed.
PushFirstOnly(queue, items) == Append(queue, items[1])

\* Array.prototype.push(...items): append at the tail.
Push(queue, items) == queue \o items

\* Mutants of Unshift: the item goes to the tail; the item is not put back;
\* the item goes behind the head.
UnshiftAtTail(queue, item) == Append(queue, item)
UnshiftDiscards(queue, item) == queue
UnshiftBehindHead(queue, item) ==
    IF queue = <<>> THEN <<item>> ELSE <<Head(queue), item>> \o Tail(queue)

\* Array.prototype.unshift(item): insert at the head.
Unshift(queue, item) == <<item>> \o queue

\* Mutant of Shift: the head is read and left in the queue.
ShiftPeeks(queue) == queue

\* Array.prototype.shift(): what stays in the queue once the head is removed.
Shift(queue) == Tail(queue)

\* Mutants of SetTimeout: no timer is set; the timer is set twice.
SetTimeoutOmitted(pending) == pending
SetTimeoutTwice(pending) == pending + 2

\* setTimeout(processQueue, THROTTLE_DELAY_MS): one more pending timer.
SetTimeout(pending) == pending + 1

\* Mutant of Listening: requests wait while a delivery attempt is in flight.
ListeningWhenIdle(p) == p = "timer"

\* The endpoint serves requests from app.listen on, whatever the worker does.
Listening(p) == p # "start"

----------------------------------------------------------------------------
\* What a queued element is to the template strings of the worker:
\*   "text"       an object whose fields are strings or absent;
\*   "bad-actor"  null, or an object whose Action or CreatedByUser cannot be
\*                converted to a string (such as {"toString":1,"valueOf":1});
\*   "bad-detail" an object whose Section, Display, AuditCreatedDate or
\*                DelegateUser cannot be converted, Action and CreatedByUser can.
Kinds == {"text", "bad-actor", "bad-detail"}

\* Line 81 reads log.Action and log.CreatedByUser into a template string.
LogLineThrows(kind) == kind = "bad-actor"

\* Lines 103-110 read all six fields into the message text.
MessageThrows(kind) == kind \in {"bad-actor", "bad-detail"}

----------------------------------------------------------------------------
\* The request handler's checks, in the order of the code.

\* line 38
SecretMissing(secret) == ~Truthy(secret)

\* Mutant of TokenRejected: only a missing token is rejected.
TokenRejectedOnlyMissing(token, secret) == ~Truthy(token)

\* line 42
TokenRejected(token, secret) == ~Truthy(token) \/ StrictNotEqual(token, secret)

\* line 48
NoLogs(logs) == ~Truthy(logs) \/ ~IsArray(logs) \/ Len(logs[2]) = 0

\* Mutant of Outcome: the token is checked before the secret.
OutcomeTokenFirst(secret, token, logs) ==
    IF ~Truthy(token) \/ StrictNotEqual(token, secret) THEN "unauthorized"
    ELSE IF ~Truthy(secret) THEN "config-error"
    ELSE IF ~Truthy(logs) \/ ~IsArray(logs) \/ Len(logs[2]) = 0 THEN "empty"
    ELSE "queued"

\* The branch the handler takes.
Outcome(secret, token, logs) ==
    IF SecretMissing(secret) THEN "config-error"
    ELSE IF TokenRejected(token, secret) THEN "unauthorized"
    ELSE IF NoLogs(logs) THEN "empty"
    ELSE "queued"

\* The response of each branch: status code, which body, the count in the body.
Response(outcome, n) ==
    CASE outcome = "config-error" -> [status |-> 500, body |-> "Server configuration error.", count |-> 0]
      [] outcome = "unauthorized" -> [status |-> 401, body |-> "Unauthorized: Invalid token.", count |-> 0]
      [] outcome = "empty" -> [status |-> 202, body |-> "Accepted. No logs to process.", count |-> 0]
      [] outcome = "queued" -> [status |-> 202, body |-> "Accepted. Queued n new logs.", count |-> n]

----------------------------------------------------------------------------
VARIABLES
    SALESFORCE_SECURITY_TOKEN,  \* configuration, read once
    SLACK_WEBHOOK_URL,          \* configuration, read once
    messageQueue,               \* the in-memory queue
    pc,                         \* the worker: "start", "timer" (not running), "await" (fetch in flight)
    timers,                     \* number of pending processQueue timers
    log,                        \* the record processQueue holds across the await, or None
    fields,                     \* fields[r]: the kind of the queued record r
    res,                        \* the response to the latest request
    accepted,                   \* history: every record pushed by the handler, in push order
    delivered,                  \* history: records whose fetch answered ok, in that order
    dropped,                    \* history: records postToSlack returned on without posting
    lastAttempt,                \* history: the record of the latest postToSlack call, or None
    tickQueue,                  \* history: the queue at the start of the latest tick that shifted
    tickAccepted,               \* history: Len(accepted) at the start of that tick
    tickEndLen,                 \* history: queue length when the latest tick ended
    last                        \* history: the latest handler outcome

vars == <<SALESFORCE_SECURITY_TOKEN, SLACK_WEBHOOK_URL, messageQueue, pc, timers, log, fields,
          res, accepted, delivered, dropped, lastAttempt, tickQueue, tickAccepted, tickEndLen, last>>

config == <<SALESFORCE_SECURITY_TOKEN, SLACK_WEBHOOK_URL>>

\* Values of the configuration and of the request fields.
Secrets == {Undefined, Str(""), Str("S3CR3T")}
Urls == {Undefined, Str("https://hooks.slack.test/x")}
Tokens == {Undefined, Str(""), Str("S3CR3T"), Str("WRONG"), Obj}

\* A logs array of n fresh record objects r1..rn, as received.
NewBatch(n) == [i \in 1..n |-> Len(accepted) + i]

LogsValues == {Undefined, Obj, Str("")} \cup {Arr(NewBatch(n)) : n \in 0..MaxBatch}

\* The kinds of the elements of a request's logs, element by element.  The
\* elements of a request that is not queued are never read, so one choice
\* stands for all of them.
Contents(token, logs) ==
    IF Outcome(SALESFORCE_SECURITY_TOKEN, token, logs) = "queued"
    THEN [1..Len(logs[2]) -> Kinds]
    ELSE {<<>>}

Init ==
    /\ SALESFORCE_SECURITY_TOKEN \in Secrets
    /\ SLACK_WEBHOOK_URL \in Urls
    /\ messageQueue = <<>>
    /\ pc = "start"
    /\ timers = 0
    /\ log = None
    /\ fields = <<>>
    /\ res = [status |-> 0, body |-> "", count |-> 0]
    /\ accepted = <<>>
    /\ delivered = <<>>
    /\ dropped = {}
    /\ lastAttempt = None
    /\ tickQueue = <<>>
    /\ tickAccepted = 0
    /\ tickEndLen = 0
    /\ last = "none"

----------------------------------------------------------------------------
\* app.post('/sfdc-audit-log'), lines 34-64.  Requests are served once the
\* server listens.
PostAuditLog(token, logs, content) ==
    /\ Listening(pc)
    /\ LET outcome == Outcome(SALESFORCE_SECURITY_TOKEN, token, logs)
           logsToQueue == IF outcome = "queued" THEN Reverse(logs[2]) ELSE <<>>
       IN /\ Len(accepted) + Len(logsToQueue) <= MaxRecords
          /\ messageQueue' = IF outcome = "queued" THEN Push(messageQueue, logsToQueue)
                             ELSE messageQueue
          /\ accepted' = accepted \o logsToQueue
          /\ fields' = IF outcome = "queued" THEN fields \o content ELSE fields
          /\ res' = Response(outcome, Len(logsToQueue))
    /\ last' = "ingest"
    /\ UNCHANGED <<config, pc, timers, log, delivered, dropped, lastAttempt, tickQueue, tickAccepted, tickEndLen>>

Ingest ==
    \E token \in Tokens, logs \in LogsValues :
        \E content \in Contents(token, logs) : PostAuditLog(token, logs, content)

\* processQueue up to its first yield, lines 68-80 and 94-110 (and 81-89
\* when it does not yield); pending is the number of timers still pending when
\* it starts.  It yields only at the fetch of line 113: a postToSlack that
\* returns at line 98 or throws at lines 103-110 resumes the await in a
\* microtask, before any other callback.
processQueue(pending) ==
    IF Len(messageQueue) = 0
    THEN \* lines 69-73
         /\ pc' = "timer"
         /\ timers' = SetTimeout(pending)
         /\ tickEndLen' = 0
         /\ last' = "idle"
         /\ UNCHANGED <<config, messageQueue, log, fields, res, accepted, delivered, dropped,
                        lastAttempt, tickQueue, tickAccepted>>
    ELSE /\ lastAttempt' = Head(messageQueue)
         /\ tickQueue' = messageQueue
         /\ tickAccepted' = Len(accepted)
         /\ LET head == Head(messageQueue)
                url == Truthy(SLACK_WEBHOOK_URL)
            IN IF (~url /\ LogLineThrows(fields[head])) \/ (url /\ MessageThrows(fields[head]))
               THEN \* postToSlack returns at line 98 and line 81 throws, or
                    \* lines 103-110 throw: catch, lines 82-86, and line 89
                    /\ messageQueue' = Unshift(Shift(messageQueue), head)
                    /\ log' = None
                    /\ pc' = "timer"
                    /\ timers' = SetTimeout(pending)
                    /\ tickEndLen' = Len(messageQueue')
                    /\ last' = "fail"
                    /\ UNCHANGED dropped
               ELSE IF ~url
               THEN \* lines 95-99: postToSlack returns, line 81 logs, line 89 schedules
                    /\ messageQueue' = Shift(messageQueue)
                    /\ dropped' = dropped \cup {head}
                    /\ log' = None
                    /\ pc' = "timer"
                    /\ timers' = SetTimeout(pending)
                    /\ tickEndLen' = Len(messageQueue')
                    /\ last' = "drop"
               ELSE \* line 113: fetch is in flight
                    /\ messageQueue' = Shift(messageQueue)
                    /\ log' = head
                    /\ pc' = "await"
                    /\ timers' = pending
                    /\ last' = "pop"
                    /\ UNCHANGED <<dropped, tickEndLen>>
         /\ UNCHANGED <<config, fields, res, accepted, delivered>>

\* app.listen's callback, lines 126-131.
Listen == pc = "start" /\ processQueue(timers)

\* A timer set by setTimeout(processQueue, THROTTLE_DELAY_MS) fires while no
\* processQueue call is suspended.
Tick == pc = "timer" /\ timers > 0 /\ processQueue(timers - 1)

\* fetch answers ok: postToSlack returns, lines 81 and 89 (line 81 converts
\* what line 104 and 107 converted before the fetch, and does not throw).
FetchOk ==
    /\ pc = "await"
    /\ delivered' = Append(delivered, log)
    /\ log' = None
    /\ pc' = "timer"
    /\ timers' = SetTimeout(timers)
    /\ tickEndLen' = Len(messageQueue)
    /\ last' = "ok"
    /\ UNCHANGED <<config, messageQueue, fields, res, accepted, dropped, lastAttempt, tickQueue, tickAccepted>>

\* fetch rejects or answers not ok: postToSlack throws, lines 82-86 and 89.
FetchFail ==
    /\ pc = "await"
    /\ messageQueue' = Unshift(messageQueue, log)
    /\ log' = None
    /\ pc' = "timer"
    /\ timers' = SetTimeout(timers)
    /\ tickEndLen' = Len(messageQueue')
    /\ last' = "fail"
    /\ UNCHANGED <<config, fields, res, accepted, delivered, dropped, lastAttempt, tickQueue, tickAccepted>>

Next == Listen \/ Ingest \/ Tick \/ FetchOk \/ FetchFail

Spec == Init /\ [][Next]_vars

\* The worker under a channel that answers every post eventually and a timer
\* that keeps firing: a scheduled tick runs, and a fetch that is awaited again
\* and again eventually answers ok.
LiveSpec == Spec /\ WF_vars(Listen) /\ WF_vars(Tick) /\ SF_vars(FetchOk)

----------------------------------------------------------------------------
\* Helpers of the properties.

Range(s) == {s[i] : i \in 1..Len(s)}

\* How many times record r occurs in sequence s.
Count(s, r) == Cardinality({i \in 1..Len(s) : s[i] = r})

\* Position of record r in the acceptance order (0 when not accepted).
Pos(r) == IF r \in Range(accepted) THEN CHOOSE i \in 1..Len(accepted) : accepted[i] = r ELSE 0

\* The latest step ended a tick that had shifted a record.
TickEnded == last \in {"drop", "ok", "fail"}

----------------------------------------------------------------------------
\* C1: Delivery order.  Whenever the worker has attempted record B (shifted it
\* and called postToSlack on it), every record A placed in the queue ahead of B
\* has been delivered successfully before.
C1_DeliveryOrder ==
    lastAttempt # None =>
        \A i \in 1..Len(accepted) : i < Pos(lastAttempt) => accepted[i] \in Range(delivered)

\* C2: No loss and no duplication.  Every accepted record is in exactly one of
\* three places: once in the queue, in flight, or once among the delivered.
C2_NoLossNoDup ==
    \A i \in 1..Len(accepted) :
        Count(messageQueue, accepted[i]) + (IF log = accepted[i] THEN 1 ELSE 0)
            + Count(delivered, accepted[i]) = 1

\* C3: With the channel URL not configured, a tick on a non-empty queue leaves
\* the record it shifted at the head of the queue.
C3_UnsetUrlRequeues ==
    (~Truthy(SLACK_WEBHOOK_URL) /\ TickEnded) =>
        (messageQueue # <<>> /\ Head(messageQueue) = lastAttempt)

\* The attempts on the head record can never succeed: they throw before any
\* fetch, whatever the channel answers.
HeadNeverSucceeds ==
    /\ messageQueue # <<>>
    /\ IF SLACK_WEBHOOK_URL = Undefined
       THEN fields[Head(messageQueue)] = "bad-actor"
       ELSE fields[Head(messageQueue)] # "text"

\* C4: At-least-once delivery.  Under LiveSpec (ticks keep firing, the channel
\* does not fail forever) every accepted record is eventually delivered
\* successfully, unless the queue is stuck behind a record whose attempts
\* can never succeed.
C4_AtLeastOnce ==
    \A r \in 1..MaxRecords :
        (r \in Range(accepted)) ~> (r \in Range(delivered) \/ HeadNeverSucceeds)

----------------------------------------------------------------------------
\* The cases of a request, in the words of the interface: the secret is
\* configured when the environment holds a non-empty string for it; the token
\* is compared as a value; logs carries a batch when it is a non-empty array.

SecretConfigured ==
    SALESFORCE_SECURITY_TOKEN[1] = "string" /\ SALESFORCE_SECURITY_TOKEN[2] # ""

TokenMatches(token) == token # Undefined /\ token = SALESFORCE_SECURITY_TOKEN

HasBatch(logs) == logs[1] = "array" /\ Len(logs[2]) > 0

BatchLen(logs) == IF HasBatch(logs) THEN Len(logs[2]) ELSE 0

\* The step is the handler serving the request {token, logs}; the kinds of
\* the elements it queued are the ones the step added to fields.
IngestOf(token, logs) ==
    /\ last' = "ingest"
    /\ PostAuditLog(token, logs, SubSeq(fields', Len(fields) + 1, Len(fields')))

\* The request {token, logs} is valid and carries a batch.
ValidBatch(token, logs) == SecretConfigured /\ TokenMatches(token) /\ HasBatch(logs)

\* C5: A request with the secret configured, a matching token and a batch of n
\* records makes the queue n longer and answers 202 with count n.
C5_IngestLength ==
    [][\A token \in Tokens, logs \in LogsValues :
            (ValidBatch(token, logs) /\ IngestOf(token, logs)) =>
                /\ Len(messageQueue') = Len(messageQueue) + BatchLen(logs)
                /\ res'.status = 202
                /\ res'.count = BatchLen(logs)]_vars

\* C5 witness: a batch of two was queued while a delivery attempt on an
\* earlier record was in flight.
C5_Witness ==
    /\ last = "ingest" /\ res.status = 202 /\ res.count = 2
    /\ pc = "await" /\ Len(messageQueue) = 2 /\ Len(accepted) = 3

\* C6: A valid batch [r1, ..., rn] leaves the records already queued in place
\* and appends rn, ..., r1 at the tail; on an empty queue the queue is then
\* exactly rn, ..., r1 from the head.
C6_IngestReversed ==
    [][\A token \in Tokens, logs \in LogsValues :
            (ValidBatch(token, logs) /\ IngestOf(token, logs)) =>
                LET n == BatchLen(logs)
                    m == Len(messageQueue)
                IN /\ Len(messageQueue') = m + n
                   /\ \A i \in 1..m : messageQueue'[i] = messageQueue[i]
                   /\ \A j \in 1..n : messageQueue'[m + j] = logs[2][n + 1 - j]]_vars

\* C6 witness: a batch of two, the records Len(accepted) - 1 and Len(accepted)
\* as received, was appended behind records already queued, the later one
\* first.
C6_Witness ==
    /\ last = "ingest" /\ res.status = 202 /\ res.count = 2
    /\ Len(messageQueue) > 2
    /\ messageQueue[Len(messageQueue) - 1] = Len(accepted)
    /\ messageQueue[Len(messageQueue)] = Len(accepted) - 1

\* C7: A request with the secret unset, with a missing or different token, or
\* with logs absent, not an array or empty leaves the queue and the worker
\* unchanged.
C7_RejectedLeavesQueue ==
    [][\A token \in Tokens, logs \in LogsValues :
            (~ValidBatch(token, logs) /\ IngestOf(token, logs)) =>
                /\ messageQueue' = messageQueue
                /\ pc' = pc
                /\ timers' = timers
                /\ log' = log]_vars

\* C7 witness: a request was answered 401 while records were queued and a
\* delivery attempt was in flight.
C7_Witness ==
    /\ last = "ingest" /\ SecretConfigured /\ res.status = 401
    /\ messageQueue # <<>> /\ pc = "await"

\* C8: The checks apply in a fixed order: secret not configured gives 500;
\* otherwise a missing or different token gives 401; otherwise no batch gives
\* 202 with nothing queued; otherwise 202 with the batch queued.
C8_CheckOrder ==
    [][\A token \in Tokens, logs \in LogsValues :
            IngestOf(token, logs) =>
                IF ~SecretConfigured
                THEN res'.status = 500 /\ messageQueue' = messageQueue
                ELSE IF ~TokenMatches(token)
                THEN res'.status = 401 /\ messageQueue' = messageQueue
                ELSE IF ~HasBatch(logs)
                THEN res'.status = 202 /\ res'.count = 0 /\ messageQueue' = messageQueue
                ELSE /\ res'.status = 202 /\ res'.count = BatchLen(logs)
                     /\ Len(messageQueue') = Len(messageQueue) + BatchLen(logs)]_vars

\* C8 witness: with no secret configured a request was answered 500.
C8_Witness ==
    /\ last = "ingest" /\ ~SecretConfigured /\ res.status = 500 /\ messageQueue = <<>>

\* The latest attempt threw and its record has not been attempted since.
LastAttemptFailed ==
    /\ pc = "timer" /\ lastAttempt # None
    /\ lastAttempt \notin Range(delivered) \cup dropped

\* C9: Head-of-line retry.  Right after a failed attempt the queue is the
\* queue from before the tick followed by the records accepted during the
\* attempt; and from a failed attempt until the next tick the failed record is
\* the head, so that tick attempts it again.
C9_HeadOfLineRetry ==
    /\ last = "fail" =>
            messageQueue = tickQueue \o SubSeq(accepted, tickAccepted + 1, Len(accepted))
    /\ LastAttemptFailed => (messageQueue # <<>> /\ Head(messageQueue) = lastAttempt)

\* C9 witness: an attempt failed with a second record waiting and a batch
\* accepted during the attempt.
C9_Witness ==
    /\ last = "fail" /\ Len(tickQueue) >= 2 /\ Len(accepted) > tickAccepted
    /\ Head(messageQueue) = lastAttempt

\* Every attempt resolved so far has failed.
OnlyFailures == delivered = <<>> /\ dropped = {}

\* C10: While every attempt fails, the queue at the end of a tick is never
\* shorter than at the end of the tick before, and a tick that attempts a
\* record attempts the record of the attempt before.
C10_PermanentFailure ==
    [][OnlyFailures' =>
            /\ (last' \in {"idle", "fail"} => Len(messageQueue') >= tickEndLen)
            /\ (((last' = "pop" \/ (pc = "timer" /\ last' = "fail")) /\ lastAttempt # None) =>
                    lastAttempt' = lastAttempt)]_vars

\* C10 witness: after a failed tick that ended with two or more records, a
\* batch arrived and the next tick has attempted the same record again.
C10_Witness ==
    /\ OnlyFailures /\ last = "pop" /\ tickEndLen >= 2
    /\ Len(tickQueue) > tickEndLen /\ log = Head(tickQueue)

----------------------------------------------------------------------------
\* The queue as a set of records, and the in-flight record followed by the
\* queue.
Queued == {messageQueue[i] : i \in 1..Len(messageQueue)}

InFlight == pc = "await"

\* C11: The tick schedule does not depend on delivery latency: once the worker
\* has started, a next tick is pending in every state, also while a delivery
\* attempt has not resolved.
C11_TickAlwaysScheduled == pc # "start" => timers >= 1

\* The status a request gets, from the configuration and the request alone.
StatusFor(token) ==
    IF ~SecretConfigured THEN 500 ELSE IF ~TokenMatches(token) THEN 401 ELSE 202

\* C12: Ingest never waits for the dispatcher.  Once the server listens, every
\* request is enabled in every state, a delivery attempt in flight included
\* (requests that would pass the model's record bound aside); a request
\* leaves the worker's state alone and its status follows from the
\* configuration and the request alone.
C12_IngestNeverWaits ==
    /\ [](pc # "start" =>
            \A token \in Tokens, logs \in LogsValues :
                (Len(accepted) + BatchLen(logs) <= MaxRecords) =>
                    \A content \in Contents(token, logs) : ENABLED PostAuditLog(token, logs, content))
    /\ [][\A token \in Tokens, logs \in LogsValues :
            IngestOf(token, logs) =>
                (pc' = pc /\ timers' = timers /\ log' = log /\ res'.status = StatusFor(token))]_vars

\* C12 witness: a batch was queued and answered 202 while a delivery attempt
\* on another record was in flight.
C12_Witness ==
    /\ InFlight /\ last = "ingest" /\ res.status = 202 /\ res.count >= 1
    /\ log \notin Queued /\ messageQueue # <<>>

\* C13: While a delivery attempt on a record is in flight the record is not in
\* the queue, and an attempted record comes back into the queue only by the
\* step that ends a failed attempt on it.
C13_InFlightNotQueued ==
    /\ [](InFlight => log \notin Queued)
    /\ [][\A r \in 1..MaxRecords :
            (r \notin Queued /\ r \in Queued' /\ Pos(r) # 0) =>
                (InFlight /\ log = r /\ last' = "fail")]_vars

\* C13 witness: a record is in flight with other records queued, after an
\* earlier attempt on it failed and put it back.
C13_Witness ==
    /\ InFlight /\ log # None /\ messageQueue # <<>> /\ tickEndLen > Len(messageQueue)

----------------------------------------------------------------------------
\* The ingest call that accepted record r, counted from 1.  A call pushes its
\* records in descending identity and every later call pushes greater
\* identities, so the calls are the descending runs of accepted.
BatchOf(r) == 1 + Cardinality({j \in 2..Pos(r) : accepted[j] > accepted[j - 1]})

\* C14: Batch atomicity.  Along the queue the ingest calls never alternate, and
\* two queued records of one call are apart by exactly the records of that call
\* between them, in reversed order of receipt: nothing of another call and no
\* pushed-back record lies between them.
C14_BatchAtomicity ==
    \A i, j \in 1..Len(messageQueue) :
        i < j =>
            /\ Pos(messageQueue[i]) # 0 /\ Pos(messageQueue[j]) # 0
            /\ BatchOf(messageQueue[i]) <= BatchOf(messageQueue[j])
            /\ (BatchOf(messageQueue[i]) = BatchOf(messageQueue[j]) =>
                    messageQueue[j] = messageQueue[i] - (j - i))

\* C14 witness: a record of a batch of two was pushed back in front of its
\* batch mate after a second request had been queued during the attempt.
C14_Witness ==
    /\ last = "fail" /\ Len(messageQueue) = 3 /\ Len(accepted) > tickAccepted
    /\ BatchOf(messageQueue[1]) = BatchOf(messageQueue[2])
    /\ BatchOf(messageQueue[2]) # BatchOf(messageQueue[3])

\* C15: A tick that finds the queue empty attempts nothing, leaves the queue
\* and the worker idle, and leaves exactly one timer pending; a record that is
\* at the head while the worker waits for its timer is attempted by a later
\* tick.
C15_EmptyTick ==
    /\ [][(pc = "timer" /\ last' = "idle") =>
            /\ messageQueue = <<>> /\ messageQueue' = messageQueue
            /\ lastAttempt' = lastAttempt /\ delivered' = delivered /\ dropped' = dropped
            /\ log' = None /\ pc' = "timer" /\ timers' = 1]_vars
    /\ \A r \in 1..MaxRecords :
            (pc = "timer" /\ messageQueue # <<>> /\ Head(messageQueue) = r) ~> (lastAttempt = r)

\* C15 witness: after a tick on the empty queue a batch was accepted and a
\* later tick has attempted its first record.
C15_Witness ==
    /\ last = "pop" /\ delivered = <<>> /\ dropped = {} /\ tickEndLen = 0
    /\ tickAccepted = Len(tickQueue) /\ Len(tickQueue) >= 2 /\ log = Head(tickQueue)

\* C16: Single consumer.  After startup the worker has either exactly one
\* pending timer and no attempt in flight, or no pending timer and exactly one
\* attempt in flight; and no step takes more than one record from the queue.
C16_SingleConsumer ==
    /\ [](pc # "start" =>
            \/ (pc = "timer" /\ timers = 1 /\ log = None)
            \/ (pc = "await" /\ timers = 0 /\ log # None))
    /\ [][Len(messageQueue') >= Len(messageQueue) - 1]_vars

\* C16 witness: after one attempt succeeded and a later one failed the next
\* timer is pending.
C16_Witness ==
    /\ last = "fail" /\ delivered # <<>> /\ pc = "timer" /\ timers = 1 /\ log = None

\* The in-flight record, if any, followed by the queue.
Undelivered == (IF log # None THEN <<log>> ELSE <<>>) \o messageQueue

\* C17: Queue order.  The in-flight record followed by the queue from head to
\* tail is sorted by acceptance order.
C17_QueueOrder ==
    \A i, j \in 1..Len(Undelivered) :
        i < j => (Pos(Undelivered[i]) # 0 /\ Pos(Undelivered[i]) < Pos(Undelivered[j]))

\* C17 witness: appends, a push-back and a new attempt have happened; a
\* record is in flight with records of two calls queued behind it.
C17_Witness ==
    /\ InFlight /\ Len(messageQueue) >= 2
    /\ tickEndLen > Len(messageQueue)
    /\ BatchOf(messageQueue[1]) # BatchOf(messageQueue[Len(messageQueue)])

=============================================================================
